---- MODULE Spec2Model ----
(***************************************************************************)
(* street-tracker: trajectory metrics, transit classification, street      *)
(* coverage and path segmentation.                                         *)
(*                                                                         *)
(* Geometry is modelled on one axis: a coordinate is a position in metres  *)
(* along a line, a walk is a sequence of coordinates, a street is a        *)
(* segment [a, b], and the buffer of a walk is the interval reaching       *)
(* buffer_distance beyond its extreme points.  Lengths, distances and      *)
(* intersections are computed exactly on this axis.  Quotients that the    *)
(* program computes in floating point (speed, sinuosity, percentages) are  *)
(* exact rationals [n, d] with d > 0.                                       *)
(***************************************************************************)
EXTENDS Integers, Sequences, FiniteSets, TLC

(***************************************************************************)
(* Bounds of the model.                                                    *)
(***************************************************************************)
MaxPts == 3          \* points of a path handed to the classifier
MaxWalks == 2        \* walks of a batch
MaxStreets == 2      \* streets of a network
MaxLen == 6          \* points of a path handed to the splitter
MaxSegSize == 5      \* largest segment_size handed to the splitter
MaxSegPts == 3       \* points of a short segment handed to the segment classifier
DensePts == 26       \* points of a long, evenly sampled segment
MaxTrackpoints == 3  \* trackpoints of a TCX file
MaxFiles == 2        \* TCX files of a directory

(***************************************************************************)
(* Rational arithmetic.                                                    *)
(***************************************************************************)
Rat(n, d) == [n |-> n, d |-> d]
RatMul(x, y) == Rat(x.n * y.n, x.d * y.d)
RatLT(x, y) == x.n * y.d < y.n * x.d
RatGT(x, y) == RatLT(y, x)
RatEQ(x, y) == x.n * y.d = y.n * x.d
RatMin(x, y) == IF RatLT(y, x) THEN y ELSE x
Abs(x) == IF x < 0 THEN -x ELSE x

(***************************************************************************)
(* Python's None, and a timestamp that pd.to_datetime cannot parse.        *)
(***************************************************************************)
None == [none |-> TRUE]
Unparseable == -1

(***************************************************************************)
(* CITY_PARAMS (speeds in m/s, distances in metres).                       *)
(***************************************************************************)
CITY_PARAMS ==
  [london |-> [buffer_distance |-> 8, max_walking_speed |-> Rat(25, 10),
               min_walking_speed |-> Rat(2, 10), max_sinuosity |-> Rat(30, 10),
               max_direct_distance |-> 8000],
   blacksburg |-> [buffer_distance |-> 10, max_walking_speed |-> Rat(28, 10),
               min_walking_speed |-> Rat(2, 10), max_sinuosity |-> Rat(35, 10),
               max_direct_distance |-> 5000],
   mumbai |-> [buffer_distance |-> 6, max_walking_speed |-> Rat(22, 10),
               min_walking_speed |-> Rat(1, 10), max_sinuosity |-> Rat(32, 10),
               max_direct_distance |-> 6000]]
Cities == DOMAIN CITY_PARAMS
KeyError == [raised |-> "KeyError"]

\* a lookup that falls back on the london profile for an unknown key
params_of_default(c) ==
  IF c \in DOMAIN CITY_PARAMS THEN CITY_PARAMS[c] ELSE CITY_PARAMS.london

\* CITY_PARAMS[city]: the profile, or the KeyError the subscript raises
params_of(c) ==
  IF c \in DOMAIN CITY_PARAMS THEN CITY_PARAMS[c] ELSE KeyError

(***************************************************************************)
(* Metrics Calculator, scripts/analyze_walks_city_specific.py.             *)
(* A path is [coords, start_time, end_time].                               *)
(***************************************************************************)
RECURSIVE PathLength(_)
PathLength(coords) ==
  IF Len(coords) < 2 THEN 0
  ELSE Abs(coords[2] - coords[1]) + PathLength(Tail(coords))

\* the metrics with the sinuosity quotient taken the wrong way round
calculate_path_metrics_inverted(path) ==
  IF path.start_time = Unparseable \/ path.end_time = Unparseable THEN None
  ELSE IF Len(path.coords) < 2 THEN None
  ELSE LET duration == path.end_time - path.start_time
           direct_distance == Abs(path.coords[Len(path.coords)] - path.coords[1])
           path_distance == PathLength(path.coords)
       IN [direct_distance |-> direct_distance,
           path_distance |-> path_distance,
           duration |-> duration,
           avg_speed |-> IF duration > 0 THEN Rat(path_distance, duration)
                         ELSE Rat(0, 1),
           sinuosity |-> IF direct_distance > 0
                         THEN Rat(direct_distance, path_distance)
                         ELSE Rat(1, 1)]

calculate_path_metrics(path) ==
  IF path.start_time = Unparseable \/ path.end_time = Unparseable THEN None
  ELSE IF Len(path.coords) < 2 THEN None
  ELSE LET duration == path.end_time - path.start_time
           direct_distance == Abs(path.coords[Len(path.coords)] - path.coords[1])
           path_distance == PathLength(path.coords)
       IN [direct_distance |-> direct_distance,
           path_distance |-> path_distance,
           duration |-> duration,
           avg_speed |-> IF duration > 0 THEN Rat(path_distance, duration)
                         ELSE Rat(0, 1),
           sinuosity |-> IF direct_distance > 0
                         THEN Rat(path_distance, direct_distance)
                         ELSE Rat(1, 1)]

(***************************************************************************)
(* Metrics Calculator, utils/geo_utils.py.  The geometry taken from the    *)
(* frame is a shapely LineString, which has no crs attribute: reading      *)
(* path_geom.crs raises AttributeError inside the try block, the handler   *)
(* prints the error and the function returns None for every path.          *)
(***************************************************************************)
geo_calculate_path_metrics(path) == None

(***************************************************************************)
(* Variants of the decision rule with one slip each.                       *)
(***************************************************************************)
\* rule 1 compares with >= instead of >
is_probable_transit_ge(metrics, params) ==
  IF metrics = None THEN FALSE
  ELSE IF metrics.direct_distance >= params.max_direct_distance THEN TRUE
  ELSE IF RatGT(metrics.avg_speed, RatMul(params.max_walking_speed, Rat(12, 10)))
       THEN TRUE
  ELSE IF metrics.direct_distance > 2000 /\ RatLT(metrics.sinuosity, Rat(105, 100))
       THEN TRUE
  ELSE IF RatLT(metrics.avg_speed, params.min_walking_speed)
          /\ metrics.direct_distance > 500
       THEN TRUE
  ELSE FALSE

\* rule 3 (straightness) left out
is_probable_transit_nostraight(metrics, params) ==
  IF metrics = None THEN FALSE
  ELSE IF metrics.direct_distance > params.max_direct_distance THEN TRUE
  ELSE IF RatGT(metrics.avg_speed, RatMul(params.max_walking_speed, Rat(12, 10)))
       THEN TRUE
  ELSE IF RatLT(metrics.avg_speed, params.min_walking_speed)
          /\ metrics.direct_distance > 500
       THEN TRUE
  ELSE FALSE

\* rule 4 reads max_walking_speed where it should read min_walking_speed
is_probable_transit_wrongkey(metrics, params) ==
  IF metrics = None THEN FALSE
  ELSE IF metrics.direct_distance > params.max_direct_distance THEN TRUE
  ELSE IF RatGT(metrics.avg_speed, RatMul(params.max_walking_speed, Rat(12, 10)))
       THEN TRUE
  ELSE IF metrics.direct_distance > 2000 /\ RatLT(metrics.sinuosity, Rat(105, 100))
       THEN TRUE
  ELSE IF RatLT(metrics.avg_speed, params.max_walking_speed)
          /\ metrics.direct_distance > 500
       THEN TRUE
  ELSE FALSE

\* rule 3 reads path_distance where it should read direct_distance
is_probable_transit_pathdist(metrics, params) ==
  IF metrics = None THEN FALSE
  ELSE IF metrics.direct_distance > params.max_direct_distance THEN TRUE
  ELSE IF RatGT(metrics.avg_speed, RatMul(params.max_walking_speed, Rat(12, 10)))
       THEN TRUE
  ELSE IF metrics.path_distance > 2000 /\ RatLT(metrics.sinuosity, Rat(105, 100))
       THEN TRUE
  ELSE IF RatLT(metrics.avg_speed, params.min_walking_speed)
          /\ metrics.direct_distance > 500
       THEN TRUE
  ELSE FALSE

\* rule 4 (slowness) left out
is_probable_transit_noslow(metrics, params) ==
  IF metrics = None THEN FALSE
  ELSE IF metrics.direct_distance > params.max_direct_distance THEN TRUE
  ELSE IF RatGT(metrics.avg_speed, RatMul(params.max_walking_speed, Rat(12, 10)))
       THEN TRUE
  ELSE IF metrics.direct_distance > 2000 /\ RatLT(metrics.sinuosity, Rat(105, 100))
       THEN TRUE
  ELSE FALSE

(***************************************************************************)
(* Transit Classifier (the same body in analyze_walks_city_specific.py     *)
(* and data/walk_analyzer.py), on the metrics of the path.                 *)
(***************************************************************************)
is_probable_transit(metrics, params) ==
  IF metrics = None THEN FALSE
  ELSE IF metrics.direct_distance > params.max_direct_distance THEN TRUE
  ELSE IF RatGT(metrics.avg_speed, RatMul(params.max_walking_speed, Rat(12, 10)))
       THEN TRUE
  ELSE IF metrics.direct_distance > 2000 /\ RatLT(metrics.sinuosity, Rat(105, 100))
       THEN TRUE
  ELSE IF RatLT(metrics.avg_speed, params.min_walking_speed)
          /\ metrics.direct_distance > 500
       THEN TRUE
  ELSE FALSE

(***************************************************************************)
(* Geometry on the axis.  A street is [a, b, covered, coverage_percent]    *)
(* with a <= b; a buffer is the closed interval [lo, hi].                  *)
(***************************************************************************)
Max2(x, y) == IF x < y THEN y ELSE x
Min2(x, y) == IF x < y THEN x ELSE y
SeqMin(q) == CHOOSE x \in {q[i] : i \in DOMAIN q} : \A i \in DOMAIN q : x <= q[i]
SeqMax(q) == CHOOSE x \in {q[i] : i \in DOMAIN q} : \A i \in DOMAIN q : x >= q[i]
Length(street) == street.b - street.a

\* walk_geom.buffer(distance)
buffer(coords, distance) ==
  [lo |-> SeqMin(coords) - distance, hi |-> SeqMax(coords) + distance]

\* buffer.intersects(street_geom) / not street_geom.intersection(buffer).is_empty.
\* A street touching the buffer in one point intersects it (in a Point).  For a
\* zero-length street lying in the buffer the geometry library decides whether
\* the degenerate line counts (degenerate_hit): both outcomes are modelled.
intersects(street, buf, degenerate_hit) ==
  IF street.a = street.b
  THEN buf.lo <= street.a /\ street.a <= buf.hi /\ degenerate_hit
  ELSE Max2(street.a, buf.lo) <= Min2(street.b, buf.hi)

\* street_geom.intersection(buffer).length
intersection_length(street, buf) ==
  Max2(0, Min2(street.b, buf.hi) - Max2(street.a, buf.lo))

\* length of street_geom.intersection(union of the buffers)
union_intersection_length(street, bufs) ==
  Cardinality({x \in street.a .. (street.b - 1) :
                 \E i \in DOMAIN bufs : bufs[i].lo <= x /\ x + 1 <= bufs[i].hi})

Percent(part, whole) == Rat(100 * part, whole)
Hundred == Rat(100, 1)
Zero == Rat(0, 1)
ZeroDivisionError == [raised |-> "ZeroDivisionError"]

(***************************************************************************)
(* Coverage of one street, scripts/analyze_walks_city_specific.py: the     *)
(* body of the loop over the streets.                                      *)
(***************************************************************************)
RECURSIVE cs_covered_length(_, _)
cs_covered_length(street, bufs) ==
  IF bufs = <<>> THEN 0
  ELSE intersection_length(street, Head(bufs)) + cs_covered_length(street, Tail(bufs))

cs_street_coverage(street, bufs) ==
  IF Length(street) > 0
  THEN LET coverage_percent == Percent(cs_covered_length(street, bufs), Length(street))
       IN [street EXCEPT !.coverage_percent = RatMin(coverage_percent, Hundred),
                         !.covered = RatGT(coverage_percent, Zero)]
  ELSE street

(***************************************************************************)
(* Coverage of one street, utils/geo_utils.py calculate_coverage: the      *)
(* buffers are united first.  The result is a percentage or the exception  *)
(* raised by the division.                                                 *)
(***************************************************************************)
\* the function without the loop that unites the buffers: only walk_buffers[0]
\* is intersected with the street
calculate_coverage_first(street_geom, walk_buffers, degenerate_hit) ==
  IF walk_buffers = <<>> THEN Zero
  ELSE IF ~intersects(street_geom, walk_buffers[1], degenerate_hit) THEN Zero
  ELSE IF Length(street_geom) = 0 THEN ZeroDivisionError
  ELSE RatMin(Percent(union_intersection_length(street_geom, <<walk_buffers[1]>>),
                      Length(street_geom)), Hundred)

calculate_coverage(street_geom, walk_buffers, degenerate_hit) ==
  IF walk_buffers = <<>> THEN Zero
  ELSE IF ~\E i \in DOMAIN walk_buffers :
              intersects(street_geom, walk_buffers[i], degenerate_hit)
       THEN Zero
  ELSE IF Length(street_geom) = 0 THEN ZeroDivisionError
  ELSE RatMin(Percent(union_intersection_length(street_geom, walk_buffers),
                      Length(street_geom)), Hundred)

\* data/walk_analyzer.py, the body of the loop over the streets
wa_street_coverage(street, bufs, degenerate_hit) ==
  LET coverage == calculate_coverage(street, bufs, degenerate_hit)
  IN IF coverage = ZeroDivisionError THEN ZeroDivisionError
     ELSE [street EXCEPT !.coverage_percent = coverage,
                         !.covered = RatGT(coverage, Zero)]

(***************************************************************************)
(* The summary record of data/walk_analyzer.py analyze_walks, from the     *)
(* input walks, the valid walks and the streets after the coverage loop.   *)
(***************************************************************************)
RECURSIVE SumLength(_)
SumLength(strs) == IF strs = <<>> THEN 0 ELSE Length(Head(strs)) + SumLength(Tail(strs))
RECURSIVE SumCoveredLength(_)
SumCoveredLength(strs) ==
  IF strs = <<>> THEN 0
  ELSE (IF Head(strs).covered THEN Length(Head(strs)) ELSE 0)
       + SumCoveredLength(Tail(strs))

\* the summary with the aggregate quotient taken the wrong way round
wa_stats_inverted(walks, valid, strs) ==
  LET total_length == SumLength(strs)
      covered_length == SumCoveredLength(strs)
  IN [total_walks |-> Len(walks),
      valid_walks |-> Len(valid),
      total_streets |-> Len(strs),
      covered_streets |-> Cardinality({j \in DOMAIN strs : strs[j].covered}),
      total_length_km |-> Rat(total_length, 1000),
      covered_length_km |-> Rat(covered_length, 1000),
      coverage_percent |-> IF covered_length > 0
                           THEN Percent(total_length, covered_length)
                           ELSE Rat(0, 1)]

\* the summary with covered_length taken over the fully covered streets only
wa_stats_fullonly(walks, valid, strs) ==
  LET RECURSIVE SumFull(_)
      SumFull(q) ==
        IF q = <<>> THEN 0
        ELSE (IF Head(q).covered /\ ~RatLT(Head(q).coverage_percent, Hundred)
              THEN Length(Head(q)) ELSE 0) + SumFull(Tail(q))
      total_length == SumLength(strs)
      covered_length == SumFull(strs)
  IN [total_walks |-> Len(walks),
      valid_walks |-> Len(valid),
      total_streets |-> Len(strs),
      covered_streets |-> Cardinality({j \in DOMAIN strs : strs[j].covered}),
      total_length_km |-> Rat(total_length, 1000),
      covered_length_km |-> Rat(covered_length, 1000),
      coverage_percent |-> IF total_length > 0
                           THEN Percent(covered_length, total_length)
                           ELSE Rat(0, 1)]

wa_stats(walks, valid, strs) ==
  LET total_length == SumLength(strs)
      covered_length == SumCoveredLength(strs)
  IN [total_walks |-> Len(walks),
      valid_walks |-> Len(valid),
      total_streets |-> Len(strs),
      covered_streets |-> Cardinality({j \in DOMAIN strs : strs[j].covered}),
      total_length_km |-> Rat(total_length, 1000),
      covered_length_km |-> Rat(covered_length, 1000),
      coverage_percent |-> IF total_length > 0
                           THEN Percent(covered_length, total_length)
                           ELSE Rat(0, 1)]

(***************************************************************************)
(* Coverage of one street, scripts/match_walks_to_streets.py: the body of  *)
(* the loop over the streets, after both columns were reset.               *)
(***************************************************************************)
RECURSIVE mw_covered_length(_, _, _)
mw_covered_length(street, bufs, degenerate_hit) ==
  IF bufs = <<>> THEN 0
  ELSE (IF intersects(street, Head(bufs), degenerate_hit)
        THEN intersection_length(street, Head(bufs)) ELSE 0)
       + mw_covered_length(street, Tail(bufs), degenerate_hit)

mw_street_coverage(street, bufs, degenerate_hit) ==
  LET reset == [street EXCEPT !.covered = FALSE, !.coverage_percent = Zero]
  IN IF \E i \in DOMAIN bufs : intersects(street, bufs[i], degenerate_hit)
     THEN IF Length(street) = 0 THEN ZeroDivisionError
          ELSE [reset EXCEPT
                  !.covered = TRUE,
                  !.coverage_percent =
                     RatMin(Hundred,
                            Percent(mw_covered_length(street, bufs, degenerate_hit),
                                    Length(street)))]
     ELSE reset

(***************************************************************************)
(* Segment Splitter, scripts/analyze_walks.py split_path_into_segments.    *)
(* The loop state is [segments, segment_timestamps, current_segment,       *)
(* current_timestamps].                                                    *)
(***************************************************************************)
\* the loop body with > where the code has >=
split_step_gt(st, coord, timestamp, segment_size) ==
  LET current_segment == Append(st.current_segment, coord)
      current_timestamps == Append(st.current_timestamps, timestamp)
  IN IF Len(current_segment) > segment_size
     THEN [segments |-> IF Len(current_segment) >= 2
                        THEN Append(st.segments, current_segment)
                        ELSE st.segments,
           segment_timestamps |-> IF Len(current_segment) >= 2
                                  THEN Append(st.segment_timestamps, current_timestamps)
                                  ELSE st.segment_timestamps,
           current_segment |-> <<coord>>,
           current_timestamps |-> <<timestamp>>]
     ELSE [st EXCEPT !.current_segment = current_segment,
                     !.current_timestamps = current_timestamps]

\* the loop body with the new run restarted empty (no overlap point)
split_step_nooverlap(st, coord, timestamp, segment_size) ==
  LET current_segment == Append(st.current_segment, coord)
      current_timestamps == Append(st.current_timestamps, timestamp)
  IN IF Len(current_segment) >= segment_size
     THEN [segments |-> IF Len(current_segment) >= 2
                        THEN Append(st.segments, current_segment)
                        ELSE st.segments,
           segment_timestamps |-> IF Len(current_segment) >= 2
                                  THEN Append(st.segment_timestamps, current_timestamps)
                                  ELSE st.segment_timestamps,
           current_segment |-> <<>>,
           current_timestamps |-> <<>>]
     ELSE [st EXCEPT !.current_segment = current_segment,
                     !.current_timestamps = current_timestamps]

\* the loop body: one (coord, timestamp) pair
split_step(st, coord, timestamp, segment_size) ==
  LET current_segment == Append(st.current_segment, coord)
      current_timestamps == Append(st.current_timestamps, timestamp)
  IN IF Len(current_segment) >= segment_size
     THEN [segments |-> IF Len(current_segment) >= 2
                        THEN Append(st.segments, current_segment)
                        ELSE st.segments,
           segment_timestamps |-> IF Len(current_segment) >= 2
                                  THEN Append(st.segment_timestamps, current_timestamps)
                                  ELSE st.segment_timestamps,
           current_segment |-> <<coord>>,
           current_timestamps |-> <<timestamp>>]
     ELSE [st EXCEPT !.current_segment = current_segment,
                     !.current_timestamps = current_timestamps]

\* the loop over zip(coords, timestamps), from pair i on
RECURSIVE split_loop(_, _, _, _, _)
split_loop(st, i, coords, timestamps, segment_size) ==
  IF i > Min2(Len(coords), Len(timestamps)) THEN st
  ELSE split_loop(split_step(st, coords[i], timestamps[i], segment_size),
                  i + 1, coords, timestamps, segment_size)

\* the function with the final partial run always discarded
split_path_into_segments_noremainder(coords, timestamps, segment_size) ==
  LET st == split_loop([segments |-> <<>>, segment_timestamps |-> <<>>,
                        current_segment |-> <<>>, current_timestamps |-> <<>>],
                       1, coords, timestamps, segment_size)
  IN [segments |-> st.segments, segment_timestamps |-> st.segment_timestamps]

\* the function with the final partial run kept only from three points on
split_path_into_segments_min3(coords, timestamps, segment_size) ==
  LET st == split_loop([segments |-> <<>>, segment_timestamps |-> <<>>,
                        current_segment |-> <<>>, current_timestamps |-> <<>>],
                       1, coords, timestamps, segment_size)
  IN IF Len(st.current_segment) >= 3
     THEN [segments |-> Append(st.segments, st.current_segment),
           segment_timestamps |-> Append(st.segment_timestamps, st.current_timestamps)]
     ELSE [segments |-> st.segments, segment_timestamps |-> st.segment_timestamps]

split_path_into_segments(coords, timestamps, segment_size) ==
  LET st == split_loop([segments |-> <<>>, segment_timestamps |-> <<>>,
                        current_segment |-> <<>>, current_timestamps |-> <<>>],
                       1, coords, timestamps, segment_size)
  IN IF Len(st.current_segment) >= 2
     THEN [segments |-> Append(st.segments, st.current_segment),
           segment_timestamps |-> Append(st.segment_timestamps, st.current_timestamps)]
     ELSE [segments |-> st.segments, segment_timestamps |-> st.segment_timestamps]

(***************************************************************************)
(* Segment metrics and the segment-level classifier, scripts/              *)
(* analyze_walks.py.  Distances are in kilometres, durations in hours.     *)
(* float('inf') is the quotient [1, 0]: the comparisons by cross products  *)
(* put it above every finite value.                                        *)
(***************************************************************************)
RatDiv(x, y) == Rat(x.n * y.d, x.d * y.n)
One == Rat(1, 1)
Infinity == Rat(1, 0)
ValueError == [raised |-> "ValueError"]

\* the distance in kilometres between two positions given in metres
haversine_distance(p, q) == Rat(Abs(q - p), 1000)

\* the sum of haversine_distance over consecutive points
RECURSIVE haversine_path(_)
haversine_path(coords) ==
  IF Len(coords) < 2 THEN Rat(0, 1000)
  ELSE Rat(haversine_distance(coords[1], coords[2]).n + haversine_path(Tail(coords)).n,
           1000)

\* timestamps are ISO strings; datetime.fromisoformat raises ValueError on one
\* it cannot parse
calculate_segment_metrics(coords, timestamps) ==
  IF Len(coords) < 2 THEN None
  ELSE IF \E i \in DOMAIN timestamps : timestamps[i] = Unparseable THEN ValueError
  ELSE LET direct_distance == haversine_distance(coords[1], coords[Len(coords)])
           path_distance == haversine_path(coords)
           duration == Rat(timestamps[Len(timestamps)] - timestamps[1], 3600)
       IN [direct_distance |-> direct_distance,
           path_distance |-> path_distance,
           duration_hours |-> duration,
           avg_speed_kmh |-> IF duration.n > 0 THEN RatDiv(path_distance, duration)
                             ELSE Rat(0, 1),
           sinuosity |-> IF direct_distance.n > 0
                         THEN RatDiv(path_distance, direct_distance)
                         ELSE One,
           point_density |-> IF path_distance.n > 0
                             THEN RatDiv(Rat(Len(coords), 1), path_distance)
                             ELSE Infinity]

MAX_WALKING_SPEED == Rat(7, 1)
MIN_POINT_DENSITY == Rat(50, 1)
MIN_SINUOSITY == Rat(105, 100)

\* the rule without the point-density test
is_probable_transit_segment_nodensity(metrics) ==
  IF metrics = None THEN TRUE
  ELSE \/ RatGT(metrics.avg_speed_kmh, MAX_WALKING_SPEED)
       \/ /\ RatLT(metrics.sinuosity, MIN_SINUOSITY)
          /\ RatGT(metrics.path_distance, Rat(5, 10))

is_probable_transit_segment(metrics) ==
  IF metrics = None THEN TRUE
  ELSE \/ RatGT(metrics.avg_speed_kmh, MAX_WALKING_SPEED)
       \/ /\ RatLT(metrics.sinuosity, MIN_SINUOSITY)
          /\ RatGT(metrics.path_distance, Rat(5, 10))
          /\ RatLT(metrics.point_density, MIN_POINT_DENSITY)

(***************************************************************************)
(* TCX files, data/tcx_processor.py.  A file is [sport, trackpoints]; a    *)
(* trackpoint is [time, position] with time in seconds and position in     *)
(* units of 0.0001 degree of longitude; either may be Missing, and a time  *)
(* may be text that datetime.fromisoformat rejects.                        *)
(***************************************************************************)
Missing == -2
NoActivity == "none"
MIN_WALK_DURATION == 60
MIN_WALK_DISTANCE == 100

\* the indices from k on of the trackpoints that have a time and a position
RECURSIVE Complete(_, _)
Complete(tps, k) ==
  IF k > Len(tps) THEN <<>>
  ELSE (IF tps[k].time # Missing /\ tps[k].position # Missing THEN <<k>> ELSE <<>>)
       \o Complete(tps, k + 1)

\* parse_tcx_file accepting a single complete trackpoint
parse_tcx_file_min1(file, name) ==
  IF file.sport = NoActivity THEN None
  ELSE IF file.sport # "Walking" THEN None
  ELSE LET trackpoints == Complete(file.trackpoints, 1)
       IN IF \E k \in DOMAIN trackpoints :
                file.trackpoints[trackpoints[k]].time = Unparseable
          THEN None
          ELSE IF Len(trackpoints) < 1 THEN None
          ELSE [coords |-> [k \in DOMAIN trackpoints |->
                               file.trackpoints[trackpoints[k]].position],
                start_time |-> file.trackpoints[trackpoints[1]].time,
                end_time |-> file.trackpoints[trackpoints[Len(trackpoints)]].time,
                source_file |-> name]

\* parse_tcx_file: the walk record of the file called name, or None
parse_tcx_file(file, name) ==
  IF file.sport = NoActivity THEN None
  ELSE IF file.sport # "Walking" THEN None
  ELSE LET trackpoints == Complete(file.trackpoints, 1)
       IN IF \E k \in DOMAIN trackpoints :
                file.trackpoints[trackpoints[k]].time = Unparseable
          THEN None
          ELSE IF Len(trackpoints) < 2 THEN None
          ELSE [coords |-> [k \in DOMAIN trackpoints |->
                               file.trackpoints[trackpoints[k]].position],
                start_time |-> file.trackpoints[trackpoints[1]].time,
                end_time |-> file.trackpoints[trackpoints[Len(trackpoints)]].time,
                source_file |-> name]

\* the test of process_tcx_files on one parsed walk; the length of the
\* geometry is in degrees
LongEnough(walk_data) ==
  /\ walk_data.end_time - walk_data.start_time >= MIN_WALK_DURATION
  /\ ~RatLT(Rat(PathLength(walk_data.coords), 10000),
            Rat(MIN_WALK_DISTANCE, 1))

\* process_tcx_files: the rows for the files from the i-th on
RECURSIVE process_tcx_files(_, _)
process_tcx_files(files, i) ==
  IF i > Len(files) THEN <<>>
  ELSE LET walk_data == parse_tcx_file(files[i], i)
       IN (IF walk_data # None /\ LongEnough(walk_data) THEN <<walk_data>> ELSE <<>>)
          \o process_tcx_files(files, i + 1)

(***************************************************************************)
(* State.                                                                  *)
(*   path, pcity, pimpl, metrics, verdict, cpc: one call of                *)
(*     is_probable_transit                                                 *)
(*   pipeline, city, buffer_distance, walks_gdf, streets_gdf: the entry    *)
(*     point and its arguments; labels, buffered, valid_walks, streets,    *)
(*     pc: what the call produced; stats: the summary record;              *)
(*     walking_segments: the segments the segment-level analyze_walks      *)
(*     kept; error: the exception that ended the call; exported: the       *)
(*     regions whose results were written before this call                 *)
(*   coords, timestamps, segment_size: the arguments of                    *)
(*     split_path_into_segments; segments, segment_timestamps: its result  *)
(*   segment_coords, seg_timestamps: one segment of analyze_walks'         *)
(*     inner loop; segment_metrics, is_transit, kept: what the loop body   *)
(*     computed for it                                                     *)
(*   tcx_files: the TCX files of a directory; walk_data: what              *)
(*     parse_tcx_file returned for each of them; gdf: what                 *)
(*     process_tcx_files returned for the directory                        *)
(***************************************************************************)
VARIABLES
  path, pcity, pimpl, metrics, verdict, cpc,
  pipeline, city, buffer_distance, walks_gdf, streets_gdf,
  labels, buffered, valid_walks, streets, pc,
  stats, walking_segments, error, exported,
  coords, timestamps, segment_size, segments, segment_timestamps, spc,
  segment_coords, seg_timestamps, segment_metrics, is_transit, kept, gpc,
  tcx_files, walk_data, gdf, tpc

cvars == <<path, pcity, pimpl, metrics, verdict, cpc>>
pvars == <<pipeline, city, buffer_distance, walks_gdf, streets_gdf,
           labels, buffered, valid_walks, streets, pc,
           stats, walking_segments, error, exported>>
svars == <<coords, timestamps, segment_size, segments, segment_timestamps, spc>>
gvars == <<segment_coords, seg_timestamps, segment_metrics, is_transit, kept, gpc>>
tvars == <<tcx_files, walk_data, gdf, tpc>>
vars == <<cvars, pvars, svars, gvars, tvars>>

SeqsUpTo(S, n) == UNION {[1..k -> S] : k \in 0..n}

(***************************************************************************)
(* Classification of one path: inputs of the classifier.                   *)
(***************************************************************************)
ClassifyCoord == {0, 500, 600, 2000, 3000, 5000, 9000}
StartTimes == {0, 100}
EndTimes == {Unparseable, 0, 600, 1000, 1800, 10000}
Paths ==
  {[coords |-> c, start_time |-> s, end_time |-> e] :
      c \in SeqsUpTo(ClassifyCoord, MaxPts) \ {<<>>}, s \in StartTimes, e \in EndTimes}

(***************************************************************************)
(* Batches: inputs of the pipelines.  Walks are LineStrings (two points or *)
(* more); a street carries the covered / coverage_percent values of its    *)
(* loader (False, 0.0) or of an earlier analysis.                          *)
(***************************************************************************)
WalkCoords == {<<0, 30>>, <<0, 110>>}
WalkEndTimes == {Unparseable, 1, 60}
Walks ==
  {[coords |-> c, start_time |-> 0, end_time |-> e] :
      c \in WalkCoords, e \in WalkEndTimes}
StreetGeoms == {<<35, 35>>, <<35, 100>>, <<100, 200>>}
Streets ==
  {[a |-> g[1], b |-> g[2], covered |-> c,
    coverage_percent |-> IF c THEN Hundred ELSE Zero] :
      g \in StreetGeoms, c \in BOOLEAN}
MatchBufferDistances == {5, 8}
Pipelines == {"city_specific", "walk_analyzer", "match", "segment_level"}
\* a region key with no entry in CITY_PARAMS
UnknownCity == "paris"
Regions == Cities \cup {UnknownCity}
\* walks handed to the segment-level analyze_walks: start_time is what it reads
SegWalkCoords == {<<0, 30>>, <<0, 600>>, <<0, 10, 20, 30, 40, 50>>}
SegWalks ==
  {[coords |-> c, start_time |-> s, end_time |-> 60] :
      c \in SegWalkCoords, s \in {0, Unparseable}}
\* the walks a pipeline is run on: only the city-specific one reads end_time
WalksOf(p) ==
  IF p = "city_specific" THEN Walks
  ELSE IF p = "segment_level" THEN SegWalks
  ELSE {w \in Walks : w.end_time = 60}

(***************************************************************************)
(* Inputs of the splitter: points and timestamps of one path.              *)
(***************************************************************************)
PointPool == {1, 2}
TimePool == {0, 10}
SegmentSizes == 1..MaxSegSize

IdleSplit ==
  /\ coords = <<>>
  /\ timestamps = <<>>
  /\ segment_size = 5
  /\ segments = <<>>
  /\ segment_timestamps = <<>>
  /\ spc = "idle"

IdleTcx ==
  /\ tcx_files = <<>>
  /\ walk_data = <<>>
  /\ gdf = <<>>
  /\ tpc = "idle"

IdleSegment ==
  /\ segment_coords = <<>>
  /\ seg_timestamps = <<>>
  /\ segment_metrics = None
  /\ is_transit = FALSE
  /\ kept = FALSE
  /\ gpc = "idle"

IdleClassify ==
  /\ path = [coords |-> <<0>>, start_time |-> 0, end_time |-> 0]
  /\ pcity = "london"
  /\ pimpl = "city_specific"
  /\ metrics = None
  /\ verdict = FALSE
  /\ cpc = "idle"

IdlePipeline ==
  /\ pipeline = "match"
  /\ city = "london"
  /\ buffer_distance = 5
  /\ walks_gdf = <<>>
  /\ streets_gdf = <<>>
  /\ labels = <<>>
  /\ buffered = <<>>
  /\ valid_walks = <<>>
  /\ streets = <<>>
  /\ pc = "idle"
  /\ stats = None
  /\ walking_segments = <<>>
  /\ error = None
  /\ exported = {}

InitClassify ==
  /\ path \in Paths
  /\ pcity \in Cities
  /\ pimpl \in {"city_specific", "walk_analyzer"}
  /\ metrics = None
  /\ verdict = FALSE
  /\ cpc = "start"
  /\ IdlePipeline
  /\ IdleSplit
  /\ IdleSegment
  /\ IdleTcx

\* is_probable_transit, first half: params lookup and the metrics call
CalculatePathMetrics ==
  /\ cpc = "start"
  /\ metrics' = IF pimpl = "city_specific" THEN calculate_path_metrics(path)
                ELSE geo_calculate_path_metrics(path)
  /\ cpc' = "metrics"
  /\ UNCHANGED <<path, pcity, pimpl, verdict, pvars, svars, gvars, tvars>>

\* is_probable_transit, second half: the decision rule
IsProbableTransit ==
  /\ cpc = "metrics"
  /\ verdict' = is_probable_transit(metrics, CITY_PARAMS[pcity])
  /\ cpc' = "classified"
  /\ UNCHANGED <<path, pcity, pimpl, metrics, pvars, svars, gvars, tvars>>

NextClassify == CalculatePathMetrics \/ IsProbableTransit
SpecClassify == InitClassify /\ [][NextClassify]_vars

(***************************************************************************)
(* The pipelines.                                                          *)
(***************************************************************************)
Init ==
  /\ IdleClassify
  /\ IdleSplit
  /\ IdleSegment
  /\ IdleTcx
  /\ pipeline \in Pipelines
  /\ city \in (IF pipeline \in {"match", "segment_level"} THEN {"london"} ELSE Regions)
  /\ buffer_distance \in (IF pipeline = "match" THEN MatchBufferDistances ELSE {5})
  /\ walks_gdf \in SeqsUpTo(WalksOf(pipeline), MaxWalks)
  /\ streets_gdf \in (IF pipeline = "segment_level" THEN {<<>>}
                       ELSE SeqsUpTo(Streets, MaxStreets))
  /\ labels = [i \in DOMAIN walks_gdf |-> "unclassified"]
  /\ buffered = <<>>
  /\ valid_walks = <<>>
  /\ streets = <<>>
  /\ pc = "start"
  /\ stats = None
  /\ walking_segments = <<>>
  /\ error = None
  /\ exported = Cities \ {city}

\* the kept indices collected by prepending instead of appending
RECURSIVE FilterIndices_reversed(_, _)
FilterIndices_reversed(i, keep) ==
  IF i > Len(keep) THEN <<>>
  ELSE FilterIndices_reversed(i + 1, keep) \o (IF keep[i] THEN <<i>> ELSE <<>>)

\* the indices from i on, in order, whose entry in keep is TRUE
RECURSIVE FilterIndices(_, _)
FilterIndices(i, keep) ==
  IF i > Len(keep) THEN <<>>
  ELSE (IF keep[i] THEN <<i>> ELSE <<>>) \o FilterIndices(i + 1, keep)

Label(transit) == IF transit THEN "transit" ELSE "walking"
BuffersOf(indices, distance) ==
  [k \in DOMAIN indices |-> buffer(walks_gdf[indices[k]].coords, distance)]

\* the pass without streets_gdf.copy(): the values are written to the frame
\* the caller passed
caller_frame_inplace(frame, written) == IF written = <<>> THEN frame ELSE written

\* the frame the caller passed, after the pass has written its values: the
\* pass works on frame.copy(), so the caller's rows are the ones it passed
caller_frame(frame, written) == frame

\* the state a call is left in when it raises e: nothing was produced
Raise(e) ==
  /\ pc' = "error"
  /\ error' = e
  /\ UNCHANGED <<labels, buffered, valid_walks, streets, stats, walking_segments>>

\* analyze_walks of scripts/analyze_walks_city_specific.py
cs_is_probable_transit(walk, c) ==
  is_probable_transit(calculate_path_metrics(walk), params_of(c))

AnalyzeWalksCitySpecific ==
  /\ pc = "start" /\ pipeline = "city_specific"
  /\ LET params == params_of(city)
         transit(i) == cs_is_probable_transit(walks_gdf[i], city)
         keep == [i \in DOMAIN walks_gdf |-> ~transit(i)]
         valid == FilterIndices(1, keep)
         bufs == BuffersOf(valid, params.buffer_distance)
     IN IF params = KeyError THEN Raise(KeyError)
        ELSE /\ labels' = [i \in DOMAIN walks_gdf |-> Label(transit(i))]
             /\ valid_walks' = valid
             /\ buffered' = valid
             /\ streets' = [j \in DOMAIN streets_gdf |->
                              cs_street_coverage(streets_gdf[j], bufs)]
             /\ pc' = "done"
             /\ UNCHANGED <<stats, walking_segments, error>>
  /\ streets_gdf' = caller_frame(streets_gdf, streets')
  /\ UNCHANGED <<cvars, svars, gvars, tvars, pipeline, city, buffer_distance, walks_gdf,
                 exported>>

\* analyze_walks of data/walk_analyzer.py
wa_is_probable_transit(walk, c) ==
  is_probable_transit(geo_calculate_path_metrics(walk), params_of(c))

AnalyzeWalksWalkAnalyzer ==
  /\ pc = "start" /\ pipeline = "walk_analyzer"
  /\ \E degenerate_hit \in BOOLEAN :
       LET params == params_of(city)
           transit(i) == wa_is_probable_transit(walks_gdf[i], city)
           keep == [i \in DOMAIN walks_gdf |-> ~transit(i)]
           valid == FilterIndices(1, keep)
           walk_buffers == BuffersOf(valid, params.buffer_distance)
           result == [j \in DOMAIN streets_gdf |->
                        wa_street_coverage(streets_gdf[j], walk_buffers, degenerate_hit)]
       IN IF params = KeyError THEN Raise(KeyError)
          ELSE IF \E j \in DOMAIN result : result[j] = ZeroDivisionError
          THEN /\ pc' = "error"
               /\ error' = ZeroDivisionError
               /\ labels' = [i \in DOMAIN walks_gdf |-> Label(transit(i))]
               /\ valid_walks' = valid
               /\ buffered' = valid
               /\ UNCHANGED <<streets, stats, walking_segments>>
          ELSE /\ labels' = [i \in DOMAIN walks_gdf |-> Label(transit(i))]
               /\ valid_walks' = valid
               /\ buffered' = valid
               /\ streets' = result
               /\ stats' = wa_stats(walks_gdf, valid, result)
               /\ pc' = "done"
               /\ UNCHANGED <<walking_segments, error>>
  /\ streets_gdf' = caller_frame(streets_gdf, streets')
  /\ UNCHANGED <<cvars, svars, gvars, tvars, pipeline, city, buffer_distance, walks_gdf,
                 exported>>

\* match_walks_to_streets of scripts/match_walks_to_streets.py, as called by
\* scripts/main.py with every parsed walk
MatchWalksToStreets ==
  /\ pc = "start" /\ pipeline = "match"
  /\ \E degenerate_hit \in BOOLEAN :
       IF walks_gdf = <<>> \/ streets_gdf = <<>>
       THEN /\ streets' = streets_gdf
            /\ buffered' = <<>>
            /\ pc' = "done"
            /\ UNCHANGED error
       ELSE LET all == [i \in DOMAIN walks_gdf |-> i]
                walks_buffer == BuffersOf(all, buffer_distance)
                result == [j \in DOMAIN streets_gdf |->
                             mw_street_coverage(streets_gdf[j], walks_buffer,
                                                degenerate_hit)]
                raised == \E j \in DOMAIN result : result[j] = ZeroDivisionError
            IN /\ streets' = IF raised THEN <<>> ELSE result
               /\ buffered' = all
               /\ pc' = IF raised THEN "error" ELSE "done"
               /\ error' = IF raised THEN ZeroDivisionError ELSE None
  /\ streets_gdf' = caller_frame(streets_gdf, streets')
  /\ UNCHANGED <<cvars, svars, gvars, tvars, pipeline, city, buffer_distance, walks_gdf,
                 labels, valid_walks, stats, walking_segments, exported>>

\* analyze_walks of scripts/analyze_walks.py: the rows carry no timestamps
\* column, so every point of a walk gets the walk's start_time
DEFAULT_SEGMENT_SIZE == 5
RowTimestamps(walk) == [i \in DOMAIN walk.coords |-> walk.start_time]
SegmentsOf(walk) ==
  split_path_into_segments(walk.coords, RowTimestamps(walk), DEFAULT_SEGMENT_SIZE)
SegmentRaises(walk) ==
  \E k \in DOMAIN SegmentsOf(walk).segments :
     calculate_segment_metrics(SegmentsOf(walk).segments[k],
                               SegmentsOf(walk).segment_timestamps[k]) = ValueError
\* the segments from the k-th on that the inner loop keeps
RECURSIVE KeptSegments(_, _)
KeptSegments(r, k) ==
  IF k > Len(r.segments) THEN <<>>
  ELSE LET m == calculate_segment_metrics(r.segments[k], r.segment_timestamps[k])
       IN (IF m # None /\ ~is_probable_transit_segment(m)
           THEN <<r.segments[k]>> ELSE <<>>) \o KeptSegments(r, k + 1)
\* the segments kept over the rows from the i-th on
RECURSIVE WalkingSegments(_, _)
WalkingSegments(walks, i) ==
  IF i > Len(walks) THEN <<>>
  ELSE KeptSegments(SegmentsOf(walks[i]), 1) \o WalkingSegments(walks, i + 1)
\* sum(len(coords) - 1) over the rows
RECURSIVE TotalSegments(_)
TotalSegments(walks) ==
  IF walks = <<>> THEN 0
  ELSE (Len(Head(walks).coords) - 1) + TotalSegments(Tail(walks))

AnalyzeWalksSegments ==
  /\ pc = "start" /\ pipeline = "segment_level"
  /\ IF \E i \in DOMAIN walks_gdf : SegmentRaises(walks_gdf[i])
     THEN Raise(ValueError)
     ELSE IF TotalSegments(walks_gdf) = 0
     THEN Raise(ZeroDivisionError)
     ELSE /\ walking_segments' = WalkingSegments(walks_gdf, 1)
          /\ pc' = "done"
          /\ UNCHANGED <<labels, buffered, valid_walks, streets, stats, error>>
  /\ UNCHANGED <<cvars, svars, gvars, tvars, pipeline, city, buffer_distance, walks_gdf,
                 streets_gdf, exported>>

Next ==
  \/ AnalyzeWalksCitySpecific
  \/ AnalyzeWalksWalkAnalyzer
  \/ MatchWalksToStreets
  \/ AnalyzeWalksSegments
Spec == Init /\ [][Next]_vars

(***************************************************************************)
(* One call of the splitter.                                               *)
(***************************************************************************)
InitSplit ==
  /\ IdleClassify
  /\ IdlePipeline
  /\ IdleSegment
  /\ IdleTcx
  /\ \E n \in 0..MaxLen :
        /\ coords \in [1..n -> PointPool]
        /\ timestamps \in [1..n -> TimePool]
  /\ segment_size \in SegmentSizes
  /\ segments = <<>>
  /\ segment_timestamps = <<>>
  /\ spc = "start"

SplitPathIntoSegments ==
  /\ spc = "start"
  /\ LET r == split_path_into_segments(coords, timestamps, segment_size)
     IN /\ segments' = r.segments
        /\ segment_timestamps' = r.segment_timestamps
  /\ spc' = "done"
  /\ UNCHANGED <<cvars, pvars, gvars, tvars, coords, timestamps, segment_size>>

NextSplit == SplitPathIntoSegments
SpecSplit == InitSplit /\ [][NextSplit]_vars

(***************************************************************************)
(* One segment in the inner loop of analyze_walks (scripts/                *)
(* analyze_walks.py): its metrics, then the keep-or-drop decision.         *)
(* Besides every short segment over SegCoord there are long evenly sampled *)
(* ones of DensePts points, 20 m apart with a last step of 40 m + spread:  *)
(* their path_distance is above 0.5 km and their point_density is 50 per   *)
(* km (spread = 0) or below it.                                            *)
(***************************************************************************)
SegCoord == {0, 500, 600, 700}
SegTimes == {Unparseable, 0, 300, 360}
DenseSpread == {0, 20}
DenseCoords(n, spread) ==
  [i \in 1..n |-> IF i = n THEN 20 * n + spread ELSE 20 * (i - 1)]
EndsAt(n, t) == [i \in 1..n |-> IF i = n THEN t ELSE 0]

InitSegment ==
  /\ IdleClassify
  /\ IdlePipeline
  /\ IdleSplit
  /\ IdleTcx
  /\ \/ \E n \in 1..MaxSegPts :
          /\ segment_coords \in [1..n -> SegCoord]
          /\ seg_timestamps \in [1..n -> SegTimes]
     \/ /\ segment_coords \in {DenseCoords(DensePts, d) : d \in DenseSpread}
        /\ seg_timestamps \in {EndsAt(DensePts, t) : t \in SegTimes \ {Unparseable}}
  /\ segment_metrics = None
  /\ is_transit = FALSE
  /\ kept = FALSE
  /\ gpc = "start"

\* metrics = calculate_segment_metrics(segment_coords, seg_timestamps)
CalculateSegmentMetrics ==
  /\ gpc = "start"
  /\ LET m == calculate_segment_metrics(segment_coords, seg_timestamps)
     IN IF m = ValueError
        THEN gpc' = "error" /\ UNCHANGED segment_metrics
        ELSE gpc' = "metrics" /\ segment_metrics' = m
  /\ UNCHANGED <<cvars, pvars, svars, tvars, segment_coords, seg_timestamps, is_transit, kept>>

\* if metrics and not is_probable_transit_segment(metrics): keep the segment
KeepWalkingSegment ==
  /\ gpc = "metrics"
  /\ is_transit' = is_probable_transit_segment(segment_metrics)
  /\ kept' = (segment_metrics # None /\ ~is_probable_transit_segment(segment_metrics))
  /\ gpc' = "classified"
  /\ UNCHANGED <<cvars, pvars, svars, tvars, segment_coords, seg_timestamps, segment_metrics>>

NextSegment == CalculateSegmentMetrics \/ KeepWalkingSegment
SpecSegment == InitSegment /\ [][NextSegment]_vars

(***************************************************************************)
(* One call of process_tcx_files on a directory.  The first file is any    *)
(* file over the trackpoints below; the others are the file of the         *)
(* repository's test (two points a minute and 0.0001 degree apart), a walk *)
(* across 100 degrees, and a run.                                          *)
(***************************************************************************)
Trackpoints ==
  {[time |-> 0, position |-> 0], [time |-> 60, position |-> 1],
   [time |-> 60, position |-> 1000000], [time |-> 30, position |-> 1000000],
   [time |-> Missing, position |-> 0], [time |-> 0, position |-> Missing],
   [time |-> Unparseable, position |-> 0]}
TestFile ==
  [sport |-> "Walking",
   trackpoints |-> <<[time |-> 0, position |-> 0], [time |-> 60, position |-> 1]>>]
FarFile ==
  [sport |-> "Walking",
   trackpoints |-> <<[time |-> 0, position |-> 0],
                     [time |-> 60, position |-> 1000000]>>]
RunFile == [TestFile EXCEPT !.sport = "Running"]
TcxFiles ==
  {[sport |-> "Walking", trackpoints |-> t] : t \in SeqsUpTo(Trackpoints, MaxTrackpoints)}
     \cup {RunFile, [TestFile EXCEPT !.sport = NoActivity]}
Directories ==
  {<<>>} \cup {<<f>> \o r : f \in TcxFiles,
                             r \in SeqsUpTo({TestFile, FarFile, RunFile}, MaxFiles - 1)}

InitTcx ==
  /\ IdleClassify
  /\ IdlePipeline
  /\ IdleSplit
  /\ IdleSegment
  /\ tcx_files \in Directories
  /\ walk_data = <<>>
  /\ gdf = <<>>
  /\ tpc = "start"

ProcessTcxFiles ==
  /\ tpc = "start"
  /\ walk_data' = [i \in DOMAIN tcx_files |-> parse_tcx_file(tcx_files[i], i)]
  /\ gdf' = process_tcx_files(tcx_files, 1)
  /\ tpc' = "done"
  /\ UNCHANGED <<cvars, pvars, svars, gvars, tcx_files>>

NextTcx == ProcessTcxFiles
SpecTcx == InitTcx /\ [][NextTcx]_vars

(***************************************************************************)
(* Both Metrics Calculators: one call of the trajectory-level one or of    *)
(* the segment-level one.                                                  *)
(***************************************************************************)
InitMetrics == InitClassify \/ InitSegment
NextMetrics == NextClassify \/ NextSegment
SpecMetrics == InitMetrics /\ [][NextMetrics]_vars

(***************************************************************************)
(* Properties of the trajectory-level classifier (SpecClassify).           *)
(***************************************************************************)
Classified == cpc = "classified"
Params == CITY_PARAMS[pcity]
\* max_walking_speed * 1.2 < avg_speed, in integers
SpeedAbove(m, p) ==
  10 * m.avg_speed.n * p.max_walking_speed.d > 12 * p.max_walking_speed.n * m.avg_speed.d
\* direct_distance > 2000 and sinuosity < 1.05, in integers
LongAndStraight(m) ==
  m.direct_distance > 2000 /\ 100 * m.sinuosity.n < 105 * m.sinuosity.d
\* avg_speed < min_walking_speed and direct_distance > 500, in integers
SlowAndFar(m, p) ==
  /\ m.avg_speed.n * p.min_walking_speed.d < p.min_walking_speed.n * m.avg_speed.d
  /\ m.direct_distance > 500

\* C1: with a Metrics record present, the classifier answers transit exactly
\* when one of the four strict rules holds, and walking otherwise.
C1_DecisionRule ==
  (Classified /\ metrics # None) =>
     (verdict <=> \/ metrics.direct_distance > Params.max_direct_distance
                  \/ SpeedAbove(metrics, Params)
                  \/ LongAndStraight(metrics)
                  \/ SlowAndFar(metrics, Params))

\* C1 witness: a trajectory whose direct_distance equals max_direct_distance
\* (the threshold itself) was classified walking.
C1_Witness ==
  /\ Classified /\ metrics # None
  /\ metrics.direct_distance = Params.max_direct_distance
  /\ verdict = FALSE

\* C2 (as claimed): a trajectory for which the Metrics Calculator returned no
\* metrics is classified transit.
C2_AbsentMetricsIsTransit ==
  (Classified /\ metrics = None) => verdict = TRUE

\* The scenario of C3: straight 3000 m in 1800 s under the london profile.
C3_Scenario ==
  /\ pimpl = "city_specific" /\ pcity = "london"
  /\ path.coords = <<0, 3000>>
  /\ path.start_time = 0 /\ path.end_time = 1800
  /\ Classified

\* C3 (as claimed): the scenario is classified walking.
C3_ScenarioIsWalking == C3_Scenario => verdict = FALSE

\* C3 (amended): the scenario has direct_distance = path_distance = 3000,
\* sinuosity 1 and a speed of 3000/1800 m/s; rules 1, 2 and 4 do not trip,
\* rule 3 (direct_distance > 2000 and sinuosity < 1.05) does, and the
\* trajectory is classified transit.
C3_ScenarioIsTransit ==
  C3_Scenario =>
     /\ metrics # None
     /\ metrics.direct_distance = 3000 /\ metrics.path_distance = 3000
     /\ metrics.duration = 1800
     /\ ~(metrics.direct_distance > Params.max_direct_distance)
     /\ ~SpeedAbove(metrics, Params)
     /\ ~SlowAndFar(metrics, Params)
     /\ LongAndStraight(metrics)
     /\ verdict = TRUE

\* C3 witness: the scenario has been classified.
C3_Witness == C3_Scenario /\ metrics # None

\* The metrics of the same path covered in another time: direct_distance,
\* path_distance and sinuosity are the same, avg_speed differs.
MetricsAtEnd(e) == calculate_path_metrics([path EXCEPT !.end_time = e])
Faster(m2) == m2 # None /\ RatGT(m2.avg_speed, metrics.avg_speed)

\* C4 (as claimed): a speed above max_walking_speed * 1.2 is transit, and
\* raising avg_speed never turns transit into walking.
C4_Monotone ==
  (Classified /\ metrics # None) =>
     /\ SpeedAbove(metrics, Params) => verdict = TRUE
     /\ \A e \in EndTimes :
          (Faster(MetricsAtEnd(e)) /\ verdict = TRUE)
             => is_probable_transit(MetricsAtEnd(e), Params)

\* C4 (amended): a speed above max_walking_speed * 1.2 is transit, and
\* raising avg_speed from a value that is not below min_walking_speed never
\* turns transit into walking.
C4_MonotoneFromWalkingSpeed ==
  (Classified /\ metrics # None) =>
     /\ SpeedAbove(metrics, Params) => verdict = TRUE
     /\ \A e \in EndTimes :
          (/\ Faster(MetricsAtEnd(e)) /\ verdict = TRUE
           /\ ~RatLT(metrics.avg_speed, Params.min_walking_speed))
             => is_probable_transit(MetricsAtEnd(e), Params)

\* C4 witness: a trajectory at walking speed or above was classified transit
\* and the same trajectory covered faster exists among the inputs.
C4_Witness ==
  /\ Classified /\ metrics # None /\ verdict = TRUE
  /\ ~RatLT(metrics.avg_speed, Params.min_walking_speed)
  /\ ~SpeedAbove(metrics, Params)
  /\ \E e \in EndTimes : Faster(MetricsAtEnd(e)) /\ SpeedAbove(MetricsAtEnd(e), Params)

(***************************************************************************)
(* Properties of the coverage pass (Spec).                                 *)
(***************************************************************************)
Done == pc = "done"
UsedBufferDistance ==
  IF pipeline = "match" THEN buffer_distance ELSE CITY_PARAMS[city].buffer_distance
\* the buffers of the walks that were matched against the streets
UsedBuffers == BuffersOf(buffered, UsedBufferDistance)
\* no buffer has a point in common with the street
NoBufferReaches(street) ==
  \A k \in DOMAIN UsedBuffers :
     Max2(street.a, UsedBuffers[k].lo) > Min2(street.b, UsedBuffers[k].hi)
\* the length of the part of the street inside at least one buffer
LengthInsideBuffers(street) == union_intersection_length(street, UsedBuffers)
FullyInside(street) ==
  Length(street) > 0 /\ LengthInsideBuffers(street) = Length(street)

\* C5 (as claimed): after the coverage pass every coverage_percent is in
\* [0, 100], 0 when no buffer reaches the street, and exactly 100 when the
\* street lies fully inside the buffers.
C5_CoverageRange ==
  Done =>
    \A j \in DOMAIN streets :
       /\ ~RatLT(streets[j].coverage_percent, Zero)
       /\ ~RatGT(streets[j].coverage_percent, Hundred)
       /\ NoBufferReaches(streets[j]) => RatEQ(streets[j].coverage_percent, Zero)
       /\ FullyInside(streets[j]) => RatEQ(streets[j].coverage_percent, Hundred)

\* C6 (as claimed): in the returned collection, covered holds exactly for the
\* streets whose coverage_percent is greater than 0.
C6_CoveredIffPositive ==
  Done =>
    \A j \in DOMAIN streets :
       streets[j].covered <=> RatGT(streets[j].coverage_percent, Zero)

\* C7 (as claimed): the coverage pass raises no error, and a street of length
\* 0 ends with coverage_percent = 0 and covered = false.
C7_ZeroLengthStreet ==
  /\ pc # "error"
  /\ Done =>
       \A j \in DOMAIN streets :
          Length(streets[j]) = 0 =>
             /\ RatEQ(streets[j].coverage_percent, Zero)
             /\ ~streets[j].covered

\* C8 (as claimed): when walks were buffered, the coverage_percent of a street
\* of positive length is 100 times the length of its part inside at least one
\* buffer, divided by its length (a stretch in several buffers counts once).
C8_CountedOnce ==
  (Done /\ buffered # <<>>) =>
    \A j \in DOMAIN streets :
       Length(streets[j]) > 0 =>
          RatEQ(streets[j].coverage_percent,
                Percent(LengthInsideBuffers(streets[j]), Length(streets[j])))

\* C9 (as claimed): in every pipeline, each walk that was buffered and matched
\* against the streets had been classified walking.
C9_OnlyWalkingBuffered ==
  Done => \A k \in DOMAIN buffered : labels[buffered[k]] = "walking"

(***************************************************************************)
(* Properties of the splitter (SpecSplit).                                 *)
(***************************************************************************)
SplitDone == spc = "done"
NonFinalHave(n) ==
  \A k \in 1..(Len(segments) - 1) : Len(segments[k]) = n
NoneShorterThan2 ==
  \A k \in DOMAIN segments : Len(segments[k]) >= 2

\* C10 (as claimed): for every segment size N, every segment other than the
\* last has exactly N points and no segment has fewer than 2 points.
C10_SegmentSizes ==
  SplitDone => (NonFinalHave(segment_size) /\ NoneShorterThan2)

\* C10 (amended): for every segment size N >= 2, every segment other than the
\* last has exactly N points and no segment has fewer than 2 points; for
\* N <= 1 every segment, the last included, has exactly 2 points.
C10_SegmentSizesFrom2 ==
  SplitDone =>
     /\ NoneShorterThan2
     /\ segment_size >= 2 => NonFinalHave(segment_size)
     /\ segment_size <= 1 => \A k \in DOMAIN segments : Len(segments[k]) = 2

\* C10 witness: a path was split into full segments followed by a shorter
\* last one.
C10_Witness ==
  /\ SplitDone /\ segment_size >= 3
  /\ Len(segments) >= 2
  /\ Len(segments[Len(segments)]) < segment_size

Last(q) == q[Len(q)]
\* the segments laid end to end, the first point of each but the first left out
RECURSIVE Joined(_)
Joined(segs) ==
  IF segs = <<>> THEN <<>>
  ELSE IF Len(segs) = 1 THEN segs[1]
  ELSE Joined(SubSeq(segs, 1, Len(segs) - 1)) \o Tail(Last(segs))
IsPrefix(p, q) == Len(p) <= Len(q) /\ p = SubSeq(q, 1, Len(p))

\* C11: each segment after the first starts with the last point and the last
\* timestamp of the segment before it, and the segments joined on these shared
\* points are the input from its first point on, with no point left out
\* between two segments.
C11_OnePointOverlap ==
  SplitDone =>
     /\ \A k \in 1..(Len(segments) - 1) :
           /\ segments[k + 1][1] = Last(segments[k])
           /\ segment_timestamps[k + 1][1] = Last(segment_timestamps[k])
     /\ IsPrefix(Joined(segments), coords)
     /\ IsPrefix(Joined(segment_timestamps), timestamps)

\* C11 witness: a path was split into three segments or more, and the point
\* shared by the first two differs from its neighbours in the input.
C11_Witness ==
  /\ SplitDone /\ Len(segments) >= 3
  /\ Last(segments[1]) # segments[2][2]
  /\ Len(segments[1]) = segment_size

RECURSIVE SumLen(_)
SumLen(segs) == IF segs = <<>> THEN 0 ELSE Len(Head(segs)) + SumLen(Tail(segs))

\* C12 (as claimed): for every input of L points and every segment size N, the
\* point counts of the returned segments sum to at least L.
C12_SumAtLeastL ==
  SplitDone => SumLen(segments) >= Len(coords)

\* C12 (amended): for every segment size N, the point counts of the returned
\* segments sum to at least L when L is 0 or L >= 2; a single point (L = 1)
\* is discarded and the sum is 0.
C12_SumAtLeastLFrom2 ==
  SplitDone =>
     /\ Len(coords) # 1 => SumLen(segments) >= Len(coords)
     /\ Len(coords) = 1 => segments = <<>>

\* C12 witness: a path of four points or more was split with overlaps, so that
\* the point counts sum to more than L.
C12_Witness ==
  /\ SplitDone /\ Len(coords) >= 4 /\ Len(segments) >= 2
  /\ SumLen(segments) > Len(coords)

(***************************************************************************)
(* Properties of the segment-level classifier (SpecSegment).               *)
(***************************************************************************)
SegClassified == gpc = "classified"
\* avg_speed_kmh > 7, in integers
AboveWalkingSpeed(m) == m.avg_speed_kmh.n > 7 * m.avg_speed_kmh.d
\* sinuosity < 1.05 and path_distance > 0.5 km and point_density < 50 per km,
\* in integers (an infinite point_density has d = 0 and is not below 50)
StraightLongSparse(m) ==
  /\ 100 * m.sinuosity.n < 105 * m.sinuosity.d
  /\ 10 * m.path_distance.n > 5 * m.path_distance.d
  /\ m.point_density.n < 50 * m.point_density.d

\* C13: is_probable_transit_segment answers transit exactly when the metrics
\* are absent, or avg_speed_kmh > 7, or sinuosity < 1.05 with path_distance >
\* 0.5 km and point_density < 50 per km; every other segment is walking and
\* analyze_walks keeps it.
C13_SegmentRule ==
  SegClassified =>
     /\ is_transit <=> \/ segment_metrics = None
                       \/ AboveWalkingSpeed(segment_metrics)
                       \/ StraightLongSparse(segment_metrics)
     /\ ~is_transit => kept

\* C13 witness: a straight segment longer than 0.5 km, walked slowly and
\* sampled at exactly 50 points per km, was found walking and kept.
C13_Witness ==
  /\ SegClassified /\ segment_metrics # None
  /\ 100 * segment_metrics.sinuosity.n < 105 * segment_metrics.sinuosity.d
  /\ 10 * segment_metrics.path_distance.n > 5 * segment_metrics.path_distance.d
  /\ segment_metrics.point_density.n = 50 * segment_metrics.point_density.d
  /\ ~is_transit /\ kept

(***************************************************************************)
(* Properties of the batch pipelines (Spec), continued.                    *)
(***************************************************************************)
Returned == pc \in {"done", "error"}
\* a trajectory whose timestamp cannot be parsed or that has fewer than 2 points
Malformed(walk) ==
  \/ walk.start_time = Unparseable
  \/ walk.end_time = Unparseable
  \/ Len(walk.coords) < 2

\* C14 (as claimed): a batch with a malformed trajectory raises nothing: the
\* call returns, and the city-specific analyze_walks has classified every
\* trajectory and computed the coverage of every street.
C14_MalformedSkipped ==
  (/\ Returned /\ pipeline \in {"city_specific", "segment_level"}
   /\ city \in Cities
   /\ \E i \in DOMAIN walks_gdf : Malformed(walks_gdf[i]))
     => /\ pc = "done"
        /\ pipeline = "city_specific" =>
              /\ \A i \in DOMAIN labels : labels[i] \in {"walking", "transit"}
              /\ Len(streets) = Len(streets_gdf)

\* C15: a call with a region key that has no entry in CITY_PARAMS ends in a
\* KeyError with no label, no valid walk, no buffer, no street result and no
\* summary produced, and it changes neither the input walks, the input
\* streets nor the results exported for the other regions.
C15_UnknownRegionFails ==
  /\ []((Returned /\ city \notin DOMAIN CITY_PARAMS) =>
          /\ pc = "error" /\ error = KeyError
          /\ \A i \in DOMAIN labels : labels[i] = "unclassified"
          /\ valid_walks = <<>> /\ buffered = <<>>
          /\ streets = <<>> /\ stats = None
          /\ exported = Cities)
  /\ [][city \notin DOMAIN CITY_PARAMS =>
           UNCHANGED <<walks_gdf, streets_gdf, exported>>]_vars

\* C15 witness: analyze_walks was called for an unknown region with walks and
\* streets at hand and results exported for the known regions, and it failed.
C15_Witness ==
  /\ pc = "error" /\ error = KeyError /\ city = UnknownCity
  /\ walks_gdf # <<>> /\ streets_gdf # <<>> /\ exported # {}

\* C18: in the summary record valid_walks <= total_walks, covered_streets <=
\* total_streets, covered_length <= total_length, and coverage_percent is in
\* [0, 100] and is 0 when the total street length is 0.
C18_SummaryBounds ==
  stats # None =>
     /\ stats.total_walks = Len(walks_gdf) /\ stats.total_streets = Len(streets_gdf)
     /\ stats.valid_walks <= stats.total_walks
     /\ stats.covered_streets <= stats.total_streets
     /\ ~RatGT(stats.covered_length_km, stats.total_length_km)
     /\ ~RatLT(stats.coverage_percent, Zero)
     /\ ~RatGT(stats.coverage_percent, Hundred)
     /\ stats.total_length_km.n = 0 => RatEQ(stats.coverage_percent, Zero)

\* C18 witness: a summary in which some but not all streets are covered and
\* the aggregate coverage_percent lies strictly between 0 and 100.
C18_Witness ==
  /\ stats # None
  /\ 0 < stats.covered_streets /\ stats.covered_streets < stats.total_streets
  /\ RatGT(stats.coverage_percent, Zero) /\ RatLT(stats.coverage_percent, Hundred)

\* C19 (as claimed): every street that no buffer of a matched walk reaches
\* ends the coverage pass with coverage_percent = 0 and covered = false, also
\* when no walk was matched at all.
C19_UnreachedStreetIsZero ==
  Done =>
    \A j \in DOMAIN streets :
       NoBufferReaches(streets[j]) =>
          /\ RatEQ(streets[j].coverage_percent, Zero)
          /\ ~streets[j].covered

(***************************************************************************)
(* Properties of both Metrics Calculators (SpecMetrics).                   *)
(***************************************************************************)
HasMetrics == cpc \in {"metrics", "classified"} /\ metrics # None
HasSegmentMetrics == gpc \in {"metrics", "classified"} /\ segment_metrics # None

\* C17: every Metrics record has sinuosity >= 1; the sinuosity is
\* path_distance / direct_distance when direct_distance > 0 and exactly 1
\* when direct_distance = 0.
C17_SinuosityAtLeastOne ==
  /\ HasMetrics =>
       /\ ~RatLT(metrics.sinuosity, One)
       /\ metrics.direct_distance > 0 =>
             RatEQ(metrics.sinuosity,
                   Rat(metrics.path_distance, metrics.direct_distance))
       /\ metrics.direct_distance = 0 => metrics.sinuosity = One
  /\ HasSegmentMetrics =>
       /\ ~RatLT(segment_metrics.sinuosity, One)
       /\ segment_metrics.direct_distance.n > 0 =>
             RatEQ(segment_metrics.sinuosity,
                   Rat(segment_metrics.path_distance.n,
                       segment_metrics.direct_distance.n))
       /\ segment_metrics.direct_distance.n = 0 => segment_metrics.sinuosity = One

\* C17 witness: a trajectory that turns back on itself has a sinuosity above 1.
C17_Witness ==
  /\ HasMetrics /\ metrics.direct_distance > 0
  /\ RatGT(metrics.sinuosity, One)

(***************************************************************************)
(* Properties of the TCX processor (SpecTcx).                              *)
(***************************************************************************)
TcxDone == tpc = "done"
RowsOf(i) == {k \in DOMAIN gdf : gdf[k].source_file = i}

\* C20 (as claimed): the collection returned by process_tcx_files has exactly
\* one row for every file of the directory that parse_tcx_file accepts.
C20_OneRowPerAcceptedFile ==
  TcxDone =>
    \A i \in DOMAIN tcx_files :
       parse_tcx_file(tcx_files[i], i) # None => Cardinality(RowsOf(i)) = 1

\* the trackpoints of a file that have a time and a position, in file order
CompleteTrackpoints(file) ==
  LET RECURSIVE from(_)
      from(k) == IF k > Len(file.trackpoints) THEN <<>>
                 ELSE (IF /\ file.trackpoints[k].time # Missing
                          /\ file.trackpoints[k].position # Missing
                       THEN <<file.trackpoints[k]>> ELSE <<>>) \o from(k + 1)
  IN from(1)
\* the walk made of the trackpoints tps
IsWalkOf(walk, tps) ==
  /\ walk # None
  /\ walk.coords = [k \in DOMAIN tps |-> tps[k].position]
  /\ walk.start_time = tps[1].time
  /\ walk.end_time = tps[Len(tps)].time

WalkPipelines == {"city_specific", "walk_analyzer"}
C23_ValidWalksAreWalking ==
  (Done /\ pipeline \in WalkPipelines) =>
    /\ \A k \in DOMAIN valid_walks :
         valid_walks[k] \in DOMAIN walks_gdf /\ labels[valid_walks[k]] = "walking"
    /\ \A i \in DOMAIN walks_gdf :
         labels[i] = "walking" =>
           Cardinality({k \in DOMAIN valid_walks : valid_walks[k] = i}) = 1
    /\ \A k, l \in DOMAIN valid_walks : k < l => valid_walks[k] < valid_walks[l]
C23_Witness ==
  /\ Done /\ pipeline \in WalkPipelines
  /\ Len(walks_gdf) = 2 /\ Len(valid_walks) = 2
  /\ walks_gdf[1] # walks_gdf[2]

\* C25: for a trajectory whose first and last point coincide (direct_distance
\* 0, sinuosity the sentinel 1) the classifier answers transit exactly when
\* avg_speed > max_walking_speed * 1.2; the straightness rule and the slowness
\* rule never fire on it.
ClosedPath == metrics # None /\ metrics.direct_distance = 0
C25_ClosedPathSpeedOnly ==
  (Classified /\ ClosedPath) =>
    /\ metrics.sinuosity = Rat(1, 1)
    /\ Params.max_direct_distance >= 0
    /\ verdict = SpeedAbove(metrics, Params)
    /\ ~LongAndStraight(metrics)
    /\ ~SlowAndFar(metrics, Params)
C25_Witness ==
  /\ Classified /\ ClosedPath /\ verdict = TRUE
  /\ metrics.path_distance > 2000

\* C26: for a trajectory whose duration is <= 0 (avg_speed 0), under a profile
\* with min_walking_speed > 0 and max_direct_distance >= 500, the classifier
\* answers transit exactly when direct_distance > 500.
NoDuration == metrics # None /\ metrics.duration <= 0
C26_NoDurationFarOnly ==
  (Classified /\ NoDuration
     /\ RatGT(Params.min_walking_speed, Zero) /\ Params.max_direct_distance >= 500) =>
    /\ metrics.avg_speed = Zero
    /\ verdict = (metrics.direct_distance > 500)
C26_Witness ==
  /\ Classified /\ NoDuration /\ verdict = TRUE
  /\ RatGT(Params.min_walking_speed, Zero) /\ Params.max_direct_distance >= 500
  /\ metrics.direct_distance <= 2000
  /\ metrics.direct_distance <= Params.max_direct_distance

\* C28: for an input of at least 2 points and a segment size of at least 2,
\* the segments laid end to end (the first point of every segment but the first
\* left out) are exactly the input coordinates; the timestamp segments are as
\* many as the coordinate segments, each as long as its coordinate segment, and
\* laid end to end the same way they are exactly the input timestamps.
C28_SplitRoundTrip ==
  (SplitDone /\ Len(coords) >= 2 /\ segment_size >= 2) =>
     /\ Joined(segments) = coords
     /\ Len(segment_timestamps) = Len(segments)
     /\ \A k \in DOMAIN segments : Len(segment_timestamps[k]) = Len(segments[k])
     /\ Joined(segment_timestamps) = timestamps
C28_Witness ==
  /\ SplitDone /\ segment_size >= 3
  /\ Len(segments) >= 2 /\ Len(Last(segments)) = 2
  /\ Joined(segments) = coords /\ coords[1] # Last(coords)
  /\ Joined(segment_timestamps) = timestamps /\ timestamps[1] # Last(timestamps)

\* the lengths of the streets of strs that satisfy covered, added up
RECURSIVE LengthOfCovered(_)
LengthOfCovered(strs) ==
  IF strs = <<>> THEN 0
  ELSE LengthOfCovered(Tail(strs))
       + (IF Head(strs).covered THEN Head(strs).b - Head(strs).a ELSE 0)
RECURSIVE LengthOfAll(_)
LengthOfAll(strs) ==
  IF strs = <<>> THEN 0 ELSE LengthOfAll(Tail(strs)) + (Head(strs).b - Head(strs).a)
\* length * coverage_percent of one street; the percentage is a quotient by the
\* street's length (or a whole number), so the product is a whole number
Weighted(street) ==
  ((street.b - street.a) * street.coverage_percent.n) \div street.coverage_percent.d
WeightedExact(street) ==
  ((street.b - street.a) * street.coverage_percent.n) % street.coverage_percent.d = 0
\* sum over the streets of length * coverage_percent
RECURSIVE WeightedCoverage(_)
WeightedCoverage(strs) ==
  IF strs = <<>> THEN 0
  ELSE WeightedCoverage(Tail(strs)) + Weighted(Head(strs))

\* C30: in the summary of analyze_walks (walk analyzer) covered_length is the
\* sum of the full lengths of the streets with covered = true, whatever their
\* coverage_percent; with a positive total length the aggregate
\* coverage_percent is 100 * covered length / total length, and it is never
\* smaller than the length-weighted mean of the streets' coverage_percent.
C30_AggregateCountsFullLengths ==
  stats # None =>
     /\ RatEQ(stats.covered_length_km, Rat(LengthOfCovered(streets), 1000))
     /\ RatEQ(stats.total_length_km, Rat(LengthOfAll(streets), 1000))
     /\ LengthOfAll(streets) > 0 =>
          /\ RatEQ(stats.coverage_percent,
                   Rat(100 * LengthOfCovered(streets), LengthOfAll(streets)))
          /\ \A j \in DOMAIN streets : WeightedExact(streets[j])
          /\ ~RatLT(RatMul(stats.coverage_percent, Rat(LengthOfAll(streets), 1)),
                    Rat(WeightedCoverage(streets), 1))
C30_Witness ==
  /\ stats # None /\ LengthOfAll(streets) > 0
  /\ \E j \in DOMAIN streets :
        /\ streets[j].covered
        /\ RatLT(streets[j].coverage_percent, Hundred)
  /\ RatGT(RatMul(stats.coverage_percent, Rat(LengthOfAll(streets), 1)),
           Rat(WeightedCoverage(streets), 1))

\* some stretch of the street lies inside two buffers or more
InSeveralBuffers(street, bufs) ==
  \E x \in street.a .. (street.b - 1) :
     Cardinality({i \in DOMAIN bufs : bufs[i].lo <= x /\ x + 1 <= bufs[i].hi}) > 1
\* the two strategies on one street and one list of buffers
StrategiesAgree(street, bufs) ==
  LET summed == cs_street_coverage(street, bufs)
  IN \A degenerate_hit \in BOOLEAN :
       LET united == calculate_coverage(street, bufs, degenerate_hit)
       IN /\ united # ZeroDivisionError
          /\ summed.covered = RatGT(united, Zero)
          /\ ~RatLT(summed.coverage_percent, united)
          /\ ~InSeveralBuffers(street, bufs) => RatEQ(summed.coverage_percent, united)

\* C29: for a street of positive length and the buffers of one call, summing
\* the per-buffer intersections (city-specific analyze_walks) and intersecting
\* with the united buffers (calculate_coverage) agree on covered; the summed
\* coverage_percent is never the smaller one, and the two are equal when no
\* stretch of the street lies in more than one buffer.
C29_SummingVersusUnion ==
  (Done /\ pipeline \in WalkPipelines) =>
    \A j \in DOMAIN streets :
       Length(streets_gdf[j]) > 0 =>
          /\ StrategiesAgree(streets_gdf[j], UsedBuffers)
          /\ pipeline = "city_specific" =>
                streets[j] = cs_street_coverage(streets_gdf[j], UsedBuffers)
          /\ pipeline = "walk_analyzer" =>
                /\ streets[j].coverage_percent =
                     calculate_coverage(streets_gdf[j], UsedBuffers, TRUE)
                /\ streets[j].covered = RatGT(streets[j].coverage_percent, Zero)
\* C29 witness: a street that only the second of two buffers reaches, and
\* partly, was given the same percentage by summing as the union gives, next
\* to a street that reaches into the overlap of the two buffers.
C29_Witness ==
  /\ Done /\ pipeline = "city_specific" /\ Len(UsedBuffers) = 2 /\ Len(streets) = 2
  /\ ~InSeveralBuffers(streets_gdf[1], UsedBuffers)
  /\ intersection_length(streets_gdf[1], UsedBuffers[1]) = 0
  /\ streets[1].covered /\ RatLT(streets[1].coverage_percent, Hundred)
  /\ RatEQ(streets[1].coverage_percent,
           calculate_coverage(streets_gdf[1], UsedBuffers, TRUE))
  /\ InSeveralBuffers(streets_gdf[2], UsedBuffers)

\* the orders in which n buffers can be handed to the pass
Orders(n) == {f \in [1..n -> 1..n] : \A x, y \in 1..n : x # y => f[x] # f[y]}
\* what the pass of the pipeline that ran writes for one street, from that
\* street's row and the buffers alone
StreetPass(street, bufs, degenerate_hit) ==
  CASE pipeline = "city_specific" -> cs_street_coverage(street, bufs)
    [] pipeline = "walk_analyzer" -> wa_street_coverage(street, bufs, degenerate_hit)
    [] pipeline = "match" -> IF bufs = <<>> THEN street
                             ELSE mw_street_coverage(street, bufs, degenerate_hit)
SameGeometry(s, t) == s.a = t.a /\ s.b = t.b

\* the order of the buffers and the other streets have no influence on the
\* values a street is given: they are those of the pass run on that street
\* alone, with the buffers in any order
OrderAndIsolation ==
  \E degenerate_hit \in BOOLEAN :
     \A f \in Orders(Len(UsedBuffers)) :
        \A j \in DOMAIN streets :
           streets[j] = StreetPass(streets_gdf[j],
                                   [k \in DOMAIN UsedBuffers |-> UsedBuffers[f[k]]],
                                   degenerate_hit)

\* C24 (as claimed): covered and coverage_percent of a street depend only on
\* the street's geometry and on the buffers of the call: two streets of the
\* same geometry get the same values, handing the buffers over in any order
\* gives every street the same values, and the values of a street are those of
\* the pass run on that street alone.
C24_GeometryAndBuffersOnly ==
  (Done /\ pipeline \in WalkPipelines \cup {"match"}) =>
    /\ \A j, k \in DOMAIN streets :
         SameGeometry(streets_gdf[j], streets_gdf[k]) =>
            /\ streets[j].covered = streets[k].covered
            /\ streets[j].coverage_percent = streets[k].coverage_percent
    /\ OrderAndIsolation

\* segment k of a walk in the segment-level analyze_walks, and its timestamps
SegmentOf(walk, k) == SegmentsOf(walk).segments[k]
SegmentTimesOf(walk, k) == SegmentsOf(walk).segment_timestamps[k]
InWalkingSegments(seg) == \E n \in DOMAIN walking_segments : walking_segments[n] = seg

\* C27 (as claimed): in the segment-level analyze_walks every point of a walk
\* gets the walk's start_time, so every segment of every walk has metrics with
\* duration 0 and avg_speed_kmh 0; no segment is rejected for its speed, and a
\* segment is missing from the result only when its sinuosity is below 1.05
\* with path_distance above 0.5 km and point_density below 50 per km.
C27_RepeatedStartTime ==
  (pipeline = "segment_level" /\ pc # "start") =>
    \A i \in DOMAIN walks_gdf :
       \A k \in DOMAIN SegmentsOf(walks_gdf[i]).segments :
          LET seg == SegmentOf(walks_gdf[i], k)
              times == SegmentTimesOf(walks_gdf[i], k)
              m == calculate_segment_metrics(seg, times)
          IN /\ \A n \in DOMAIN times : times[n] = walks_gdf[i].start_time
             /\ m \notin {None, ValueError}
             /\ RatEQ(m.duration_hours, Zero)
             /\ RatEQ(m.avg_speed_kmh, Zero)
             /\ ~AboveWalkingSpeed(m)
             /\ InWalkingSegments(seg) <=> ~StraightLongSparse(m)
====
